---------------------------- MODULE Spec2Model ----------------------------
(***************************************************************************)
(* EcoScale building energy management: the batch pipeline                 *)
(*   run_pipeline.py -> src/etl/data_loader.py -> src/features/processor.py*)
(*   -> src/models/train_model.py -> src/models/detect_anomalies.py        *)
(*                                                                         *)
(* Conventions.                                                            *)
(*  - A dataframe is a sequence of rows (records); row order is the frame  *)
(*    order.  A parquet/joblib/csv file is NoFile or its content.          *)
(*  - A cell that may be missing is NaN (the empty tuple) or <<v>>.        *)
(*  - Timestamps are whole hours counted from the first hour of the data.  *)
(*  - Real numbers are kept exact: a mean is [num, den]; the per-building  *)
(*    std_error is kept as its square (the variance) [num, den], and       *)
(*    "x > k * std_error" is decided on the squares.  Money is in          *)
(*    hundredths of a dollar.                                              *)
(***************************************************************************)
EXTENDS Integers, Sequences, FiniteSets, TLC

VARIABLES
    pc,         \* position of the running script
    raw,        \* data/raw/<meter>_cleaned.csv (wide format) or NoFile
    weather,    \* data/raw/weather.csv: the timestamps with a row (one site)
    merged,     \* data/processed/<meter>_merged.parquet or NoFile
    features,   \* data/processed/<meter>_features.parquet or NoFile
    model,      \* src/models/lgbm_<meter>.joblib or NoFile
    df,         \* the dataframe held by the running script
    X_train,    \* train_model: the training prefix
    X_test,     \* train_model: the evaluation suffix
    anomalies,  \* detect_anomalies: the flagged rows
    report,     \* data/outputs/<meter>_anomalies.csv or NoFile
    predicted,  \* detect_anomalies: model.predict has been invoked
    files,      \* run_pipeline: the files present on disk
    log,        \* run_pipeline: what each started stage did, in order
    exit_status \* run_pipeline: the exit status of main, once it has ended

vars == <<pc, raw, weather, merged, features, model, df, X_train, X_test,
          anomalies, report, predicted, files, log, exit_status>>

-----------------------------------------------------------------------------
(* Bounds of the model. *)

MaxLen == 26          \* hours in the raw meter file
MaxGap == 2           \* the missing raw cell, if any, is at an hour 1..MaxGap
MaxWeatherLag == 1    \* weather.csv may end up to this many hours early

Buildings == {1, 2}

\* A file on disk: absent, or present with its rows.
NoFile == [exists |-> FALSE]
File(rows) == [exists |-> TRUE, rows |-> rows]
\* A table whose column names matter to its readers.
Table(columns, rows) == [exists |-> TRUE, columns |-> columns, rows |-> rows]
Frame(columns, rows) == [columns |-> columns, rows |-> rows]
EmptyFrame == Frame({}, <<>>)
NaN == <<>>
Some(v) == <<v>>
IsNaN(x) == x = NaN

-----------------------------------------------------------------------------
(* src/etl/data_loader.py *)

\* The reading of building b at hour t in the raw file: the value names its
\* building and hour, so that a derived value shows the row it came from.
RawReading(b, t) == b * 100 + t

\* load_metadata: every building is listed once, all on site 1.
load_metadata == [b \in Buildings |-> [site_id |-> 1]]

\* One row of weather per covered hour of site 1; the temperature of hour t.
AirTemperature(t) == 15 + (t % 24)

\* df.melt(id_vars=['timestamp'], var_name='building_id', value_name='meter_reading'):
\* one block of rows per building column, each block in the file's row order.
RECURSIVE MeltColumns(_, _)
MeltColumns(wide, cols) ==
    IF cols = <<>> THEN <<>>
    ELSE [i \in 1..Len(wide) |->
             [timestamp |-> wide[i].timestamp,
              building_id |-> Head(cols),
              meter_reading |-> wide[i].cells[Head(cols)]]]
         \o MeltColumns(wide, Tail(cols))

melt(wide) == MeltColumns(wide, <<1, 2>>)

\* df_long.dropna(subset=['meter_reading'])
dropna_meter_reading(long) == SelectSeq(long, LAMBDA r : ~IsNaN(r.meter_reading))

\* merge(meta, on='building_id', how='left') then
\* merge(weather, on=['site_id', 'timestamp'], how='left'): left order is kept,
\* a row with no weather row gets a missing airTemperature.
merge_meta_weather(long, w) ==
    [i \in 1..Len(long) |->
        [timestamp |-> long[i].timestamp,
         building_id |-> long[i].building_id,
         meter_reading |-> long[i].meter_reading[1],
         site_id |-> load_metadata[long[i].building_id].site_id,
         airTemperature |-> IF long[i].timestamp \in w
                            THEN Some(AirTemperature(long[i].timestamp))
                            ELSE NaN]]

process_meter_data_result(wide, w) ==
    merge_meta_weather(dropna_meter_reading(melt(wide)), w)

\* process_meter_data('electricity')
process_meter_data ==
    /\ pc = "etl"
    /\ pc' = "features"
    /\ merged' = IF raw = NoFile THEN merged
                 ELSE File(process_meter_data_result(raw.rows, weather))
    /\ UNCHANGED <<raw, weather, features, model, df, X_train, X_test,
                   anomalies, report, predicted, files, log, exit_status>>

-----------------------------------------------------------------------------
(* src/features/processor.py *)

LagShort == 1         \* shift(1)
LagLong == 24         \* shift(24)
Window == 6           \* rolling(window=6)

\* A timestamp is the number of hours since Monday 2018-01-01 00:00.
\* timestamp.dt.hour, .dt.dayofweek (Monday is 0) and .dt.month, within 2018.
hour(t) == t % 24
day_of_week(t) == (t \div 24) % 7
DaysInMonth == <<31, 28, 31, 30, 31, 30, 31, 31, 30, 31, 30, 31>>
RECURSIVE MonthOfDay(_, _)
MonthOfDay(d, m) ==
    IF d < DaysInMonth[m] THEN m ELSE MonthOfDay(d - DaysInMonth[m], m + 1)
month(t) == MonthOfDay((t \div 24) % 365, 1)

\* df['day_of_week'].isin([5, 6]).astype(int)
is_weekend(d) == IF d \in {5, 6} THEN 1 ELSE 0

\* np.sin(2 * np.pi * k / 24) and np.sin(2 * np.pi * k / 7) for k = 0, 1, ...,
\* and the cosines of the sevenths, in thousandths, rounded to the nearest.
SinTwentyFourths == <<0, 259, 500, 707, 866, 966, 1000, 966, 866, 707, 500, 259,
                      0, -259, -500, -707, -866, -966, -1000, -966, -866, -707,
                      -500, -259>>
SinSevenths == <<0, 782, 975, 434, -434, -975, -782>>
CosSevenths == <<1000, 623, -223, -901, -901, -223, 623>>

\* np.sin(2 * np.pi * v / max_val) in thousandths, for max_val 24, 12 or 7
Sin(v, max_val) ==
    IF max_val = 7 THEN SinSevenths[(v % 7) + 1]
    ELSE SinTwentyFourths[((v * (24 \div max_val)) % 24) + 1]

\* np.cos(2 * np.pi * v / max_val) in thousandths: the sine a quarter turn on
Cos(v, max_val) ==
    IF max_val = 7 THEN CosSevenths[(v % 7) + 1]
    ELSE SinTwentyFourths[((v * (24 \div max_val) + 6) % 24) + 1]

\* encode_cyclical_time(df, col, max_val): the cells col_sin and col_cos of a
\* row whose col is v
encode_cyclical_time(v, max_val) == [sin |-> Sin(v, max_val), cos |-> Cos(v, max_val)]

\* (building_id, timestamp) order of df.sort_values(['building_id', 'timestamp'])
EntityTimeLE(a, b) ==
    \/ a.building_id < b.building_id
    \/ a.building_id = b.building_id /\ a.timestamp <= b.timestamp

\* A stable sort: each row goes after the rows that are not greater.
InsertSorted(r, s) ==
    LET k == Cardinality({i \in 1..Len(s) : EntityTimeLE(s[i], r)})
    IN SubSeq(s, 1, k) \o <<r>> \o SubSeq(s, k + 1, Len(s))

RECURSIVE sort_values_entity_time(_)
sort_values_entity_time(s) ==
    IF s = <<>> THEN <<>>
    ELSE InsertSorted(s[Len(s)],
                      sort_values_entity_time(SubSeq(s, 1, Len(s) - 1)))

\* The rows of one building, in frame order (a groupby('building_id') group).
Group(s, b) == SelectSeq(s, LAMBDA r : r.building_id = b)

\* The position of row i within its building's group.
GroupPos(s, i) == Cardinality({j \in 1..i : s[j].building_id = s[i].building_id})

\* df['meter_reading'].shift(n) on the sorted frame, without the groupby
shift_ungrouped(s, n) ==
    [i \in 1..Len(s) |-> IF i > n THEN Some(s[i - n].meter_reading) ELSE NaN]

\* shift(n) reaching one row short of n
groupby_shift_short(s, n) ==
    LET grp == [b \in Buildings |-> Group(s, b)]
    IN [i \in 1..Len(s) |->
           LET k == GroupPos(s, i)
           IN IF k >= n THEN Some(grp[s[i].building_id][k - n + 1].meter_reading)
              ELSE NaN]

\* df.groupby('building_id')['meter_reading'].shift(n), as a column
groupby_shift(s, n) ==
    LET grp == [b \in Buildings |-> Group(s, b)]
    IN [i \in 1..Len(s) |->
           LET k == GroupPos(s, i)
           IN IF k > n THEN Some(grp[s[i].building_id][k - n].meter_reading)
              ELSE NaN]

RECURSIVE SumReadings(_)
SumReadings(s) ==
    IF s = <<>> THEN 0 ELSE Head(s).meter_reading + SumReadings(Tail(s))

\* df.groupby('building_id')['meter_reading'].transform(lambda x: x.rolling(window=6).mean())
groupby_rolling_mean(s, w) ==
    LET grp == [b \in Buildings |-> Group(s, b)]
    IN [i \in 1..Len(s) |->
           LET k == GroupPos(s, i)
           IN IF k >= w
              THEN Some([num |-> SumReadings(SubSeq(grp[s[i].building_id], k - w + 1, k)),
                         den |-> w])
              ELSE NaN]

\* df.dropna(): a row with a missing value in any column is removed.  The
\* merged key columns and the time features are never missing.
dropna(s) ==
    SelectSeq(s, LAMBDA r : /\ ~IsNaN(r.airTemperature)
                            /\ ~IsNaN(r.lag_1h)
                            /\ ~IsNaN(r.lag_24h)
                            /\ ~IsNaN(r.rolling_mean_6h))

\* Steps 1-5 of generate_features: the time features and their cyclical
\* encodings, the sort, the lags and the rolling mean, then dropna.
generate_features_result(m) ==
    LET sorted == sort_values_entity_time(m)
        lag1 == groupby_shift(sorted, LagShort)
        lag24 == groupby_shift(sorted, LagLong)
        roll == groupby_rolling_mean(sorted, Window)
    IN dropna([i \in 1..Len(sorted) |->
                 LET ts == sorted[i].timestamp
                     h == encode_cyclical_time(hour(ts), 24)
                     mo == encode_cyclical_time(month(ts), 12)
                     dw == encode_cyclical_time(day_of_week(ts), 7)
                 IN [timestamp |-> ts,
                     building_id |-> sorted[i].building_id,
                     meter_reading |-> sorted[i].meter_reading,
                     site_id |-> sorted[i].site_id,
                     airTemperature |-> sorted[i].airTemperature,
                     hour |-> hour(ts),
                     day_of_week |-> day_of_week(ts),
                     month |-> month(ts),
                     is_weekend |-> is_weekend(day_of_week(ts)),
                     hour_sin |-> h.sin,
                     hour_cos |-> h.cos,
                     month_sin |-> mo.sin,
                     month_cos |-> mo.cos,
                     day_of_week_sin |-> dw.sin,
                     day_of_week_cos |-> dw.cos,
                     lag_1h |-> lag1[i],
                     lag_24h |-> lag24[i],
                     rolling_mean_6h |-> roll[i]]])

\* The columns of the written table: the merged columns and the derived ones.
KeyColumns == {"timestamp", "building_id", "meter_reading", "site_id"}
FeatureNames == {"airTemperature", "hour", "day_of_week", "month", "is_weekend",
                 "hour_sin", "hour_cos", "month_sin", "month_cos",
                 "day_of_week_sin", "day_of_week_cos",
                 "lag_1h", "lag_24h", "rolling_mean_6h"}
FeatureColumns == KeyColumns \cup FeatureNames

\* generate_features('electricity')
generate_features ==
    /\ pc = "features"
    /\ pc' = "end"
    /\ features' = IF merged = NoFile THEN features
                   ELSE Table(FeatureColumns, generate_features_result(merged.rows))
    /\ UNCHANGED <<raw, weather, merged, model, df, X_train, X_test,
                   anomalies, report, predicted, files, log, exit_status>>

-----------------------------------------------------------------------------
(* The ETL and feature stages on a raw meter file. *)

\* The raw file: MaxLen hourly rows; building b has readings for its first
\* len[b] hours, except the cell (gapT, gapB) when gapT > 0; rows ascending or
\* descending by time.
RawTable(len, gapB, gapT, desc) ==
    [i \in 1..MaxLen |->
        LET t == IF desc THEN MaxLen + 1 - i ELSE i
        IN [timestamp |-> t,
            cells |-> [b \in Buildings |->
                          IF t <= len[b] /\ ~(b = gapB /\ t = gapT)
                          THEN Some(RawReading(b, t)) ELSE NaN]]]

InitFeatures ==
    /\ pc = "etl"
    /\ \/ raw = NoFile
       \/ \E len \in [Buildings -> 0..MaxLen], gapB \in Buildings,
             gapT \in 0..MaxGap, desc \in BOOLEAN :
              raw = File(RawTable(len, gapB, gapT, desc))
    /\ \E lag \in 0..MaxWeatherLag : weather = 1..(MaxLen - lag)
    /\ merged = NoFile
    /\ features = NoFile
    /\ model = NoFile
    /\ df = EmptyFrame
    /\ X_train = <<>>
    /\ X_test = <<>>
    /\ anomalies = <<>>
    /\ report = NoFile
    /\ predicted = FALSE
    /\ files = {}
    /\ log = <<>>
    /\ exit_status = NaN

NextFeatures == process_meter_data \/ generate_features

SpecFeatures == InitFeatures /\ [][NextFeatures]_vars

-----------------------------------------------------------------------------
(* Properties of the feature stage.  An entity's timestamp-ordered sequence  *)
(* is read off the merged table, the input of generate_features.             *)

Range(s) == {s[i] : i \in 1..Len(s)}

FeaturesWritten == pc = "end" /\ features # NoFile

EntityRows(b) == {r \in Range(merged.rows) : r.building_id = b}

\* The 1-based position of hour t in b's timestamp-ordered sequence.
RankOf(b, t) == Cardinality({r \in EntityRows(b) : r.timestamp < t}) + 1

\* The meter_reading of the row at position k of b's sequence.
ReadingAt(b, k) ==
    (CHOOSE r \in EntityRows(b) : RankOf(b, r.timestamp) = k).meter_reading

OutputRows(b) == {f \in Range(features.rows) : f.building_id = b}

\* C1: every row of the output of generate_features carries as lag_1h and
\* lag_24h the meter_reading of its own building's row 1 and 24 positions
\* earlier in that building's timestamp-ordered sequence (rows without such a
\* predecessor are absent), and no lag value is a reading of another building.
C1_LagsFromOwnEntity ==
    FeaturesWritten =>
        \A b \in Buildings : \A f \in OutputRows(b) :
            LET k == RankOf(b, f.timestamp)
            IN /\ k > LagLong
               /\ f.lag_1h = Some(ReadingAt(b, k - LagShort))
               /\ f.lag_24h = Some(ReadingAt(b, k - LagLong))
               /\ \A o \in Buildings \ {b} : \A r \in EntityRows(o) :
                      /\ f.lag_1h # Some(r.meter_reading)
                      /\ f.lag_24h # Some(r.meter_reading)

\* C1 witness: building 1 has fewer than 24 readings and no output row, while
\* building 2, which follows it in the sorted frame, has output rows.
C1_Witness ==
    /\ FeaturesWritten
    /\ Cardinality(EntityRows(1)) \in 1..(LagLong - 1)
    /\ OutputRows(1) = {}
    /\ OutputRows(2) # {}

\* C8 as stated: each entity loses exactly its first max(H, W) - 1 = 23 rows,
\* so an entity with n readings has max(0, n - 23) rows in the output.
C8_Original ==
    FeaturesWritten =>
        \A b \in Buildings :
            LET n == Cardinality(EntityRows(b))
                cut == (IF LagLong > Window THEN LagLong ELSE Window) - 1
            IN /\ Cardinality(OutputRows(b)) = (IF n > cut THEN n - cut ELSE 0)
               /\ \A r \in EntityRows(b) :
                      (RankOf(b, r.timestamp) > cut) <=>
                          (\E f \in OutputRows(b) : f.timestamp = r.timestamp)

\* C8 amended: each entity loses its first 24 rows in timestamp order (the
\* rows shift(24) leaves without a lag_24h) and keeps exactly the later rows
\* that have no missing value in another column; an entity with n readings and
\* no missing covariate has max(0, n - 24) rows in the output.
C8_First24Dropped ==
    FeaturesWritten =>
        \A b \in Buildings :
            LET n == Cardinality(EntityRows(b))
            IN /\ \A r \in EntityRows(b) :
                      (RankOf(b, r.timestamp) > LagLong /\ ~IsNaN(r.airTemperature)) <=>
                          (\E f \in OutputRows(b) : f.timestamp = r.timestamp)
               /\ (\A r \in EntityRows(b) : ~IsNaN(r.airTemperature)) =>
                      Cardinality(OutputRows(b)) = (IF n > LagLong THEN n - LagLong ELSE 0)

\* C8 witness: one building has exactly 24 readings and no output row, the
\* other has 26 readings, no missing covariate, and 2 output rows.
C8_Witness ==
    /\ FeaturesWritten
    /\ \E b \in Buildings :
          /\ Cardinality(EntityRows(b)) = LagLong
          /\ OutputRows(b) = {}
    /\ \E b \in Buildings :
          /\ Cardinality(EntityRows(b)) = LagLong + 2
          /\ \A r \in EntityRows(b) : ~IsNaN(r.airTemperature)
          /\ Cardinality(OutputRows(b)) = 2

\* The meter_reading of building b at hour t, if the merged table has it.
ReadingAtHour(b, t) ==
    IF \E r \in EntityRows(b) : r.timestamp = t
    THEN Some((CHOOSE r \in EntityRows(b) : r.timestamp = t).meter_reading)
    ELSE NaN

\* C11: every output row of building b at hour T carries as lag_24h the
\* meter_reading of b at hour T - 24 and as lag_1h that of b at hour T - 1,
\* also when hours are missing from b's series.
C11_LagsByClockTime ==
    FeaturesWritten =>
        \A b \in Buildings : \A f \in OutputRows(b) :
            /\ f.lag_1h = ReadingAtHour(b, f.timestamp - LagShort)
            /\ f.lag_24h = ReadingAtHour(b, f.timestamp - LagLong)

-----------------------------------------------------------------------------
(* src/models/detect_anomalies.py *)

CostPerKwhCents == 14     \* COST_PER_KWH = 0.14 dollars, in hundredths
Multiplier == 2           \* the 2 of "2 * df['std_error']"
ReportCap == 5000         \* head(5000)

\* A selection that passes over the names that are no column of df.
RaisesKeyError_never(columns, names) == FALSE

\* X = df[model_features]: a name that is no column of df raises KeyError.
RaisesKeyError(columns, names) == \E c \in names : c \notin columns

\* The difference taken the other way round.
Deviation_reversed(meter_reading, expected_reading) ==
    expected_reading - meter_reading

\* df['deviation'] = df['meter_reading'] - df['expected_reading']
Deviation(meter_reading, expected_reading) == meter_reading - expected_reading

RECURSIVE SumSeq(_)
SumSeq(s) == IF s = <<>> THEN 0 ELSE Head(s) + SumSeq(Tail(s))

\* The population standard deviation (ddof = 0), as its square.
StdSquared_ddof0(ds) ==
    LET n == Len(ds)
        S == SumSeq(ds)
    IN IF n < 1 THEN NaN
       ELSE Some([num |-> SumSeq([i \in 1..n |-> (n * ds[i] - S) * (n * ds[i] - S)]),
                  den |-> n * n * n])

\* The standard deviation pandas' 'std' gives for the values ds (ddof = 1), as
\* its square: the squared differences from the mean S/n, summed, over n - 1;
\* undefined for fewer than two values.
\*     sum((d - S/n)^2) / (n - 1)  =  sum((n*d - S)^2) / (n^2 * (n - 1))
StdSquared(ds) ==
    LET n == Len(ds)
        S == SumSeq(ds)
    IN IF n < 2 THEN NaN
       ELSE Some([num |-> SumSeq([i \in 1..n |-> (n * ds[i] - S) * (n * ds[i] - S)]),
                  den |-> n * n * (n - 1)])

Deviations(rows) == [i \in 1..Len(rows) |-> rows[i].deviation]

\* df['deviation'].std() over the whole frame, without the groupby
std_error_ungrouped(rows) ==
    [i \in 1..Len(rows) |-> StdSquared(Deviations(rows))]

\* df.groupby('building_id')['deviation'].transform('std'), as a column
std_error_column(rows) ==
    LET std == [b \in Buildings |-> StdSquared(Deviations(Group(rows, b)))]
    IN [i \in 1..Len(rows) |-> std[rows[i].building_id]]

\* k * deviation > std_error: the multiplier on the other side.
ExceedsKStd_wrongSide(deviation, k, std2) ==
    /\ ~IsNaN(std2)
    /\ deviation * k > 0
    /\ deviation * deviation * k * k * std2[1].den > std2[1].num

\* deviation > k * std_error for k >= 0, std_error given by its square:
\* false when std_error is missing; otherwise deviation must be positive and
\* its square exceed k^2 times the variance.
ExceedsKStd(deviation, k, std2) ==
    /\ ~IsNaN(std2)
    /\ deviation > 0
    /\ deviation * deviation * std2[1].den > k * k * std2[1].num

\* Steps 4 and 5 for multiplier k: the frame with deviation, std_error and
\* is_anomaly, and the rows of df[is_anomaly & (deviation > 0)] with
\* wasted_kwh and wasted_cost.
WithDeviation(rows) ==
    [i \in 1..Len(rows) |->
        [timestamp |-> rows[i].timestamp,
         building_id |-> rows[i].building_id,
         meter_reading |-> rows[i].meter_reading,
         expected_reading |-> rows[i].expected_reading,
         deviation |-> Deviation(rows[i].meter_reading, rows[i].expected_reading)]]

ScoredRows(rows, k) ==
    LET dev == WithDeviation(rows)
        std == std_error_column(dev)
    IN [i \in 1..Len(rows) |->
           [timestamp |-> dev[i].timestamp,
            building_id |-> dev[i].building_id,
            meter_reading |-> dev[i].meter_reading,
            expected_reading |-> dev[i].expected_reading,
            deviation |-> dev[i].deviation,
            std_error |-> std[i],
            is_anomaly |-> ExceedsKStd(dev[i].deviation, k, std[i])]]

AnomalyRows(scored) ==
    LET kept == SelectSeq(scored, LAMBDA r : r.is_anomaly /\ r.deviation > 0)
    IN [i \in 1..Len(kept) |->
           [timestamp |-> kept[i].timestamp,
            building_id |-> kept[i].building_id,
            meter_reading |-> kept[i].meter_reading,
            expected_reading |-> kept[i].expected_reading,
            wasted_kwh |-> kept[i].deviation,
            wasted_cost |-> kept[i].deviation * CostPerKwhCents]]

\* The greatest and the least wasted_cost among rows i..j of s.
RECURSIVE MaxCost(_, _, _)
MaxCost(s, i, j) ==
    IF i = j THEN s[i].wasted_cost
    ELSE LET m == (i + j) \div 2
             a == MaxCost(s, i, m)
             b == MaxCost(s, m + 1, j)
         IN IF a >= b THEN a ELSE b

RECURSIVE MinCost(_, _, _)
MinCost(s, i, j) ==
    IF i = j THEN s[i].wasted_cost
    ELSE LET m == (i + j) \div 2
             a == MinCost(s, i, m)
             b == MinCost(s, m + 1, j)
         IN IF a <= b THEN a ELSE b

\* Every arrangement of the rows of s.
Arrangements(s) ==
    {[i \in 1..Len(s) |-> s[p[i]]] : p \in Permutations(1..Len(s))}

\* The orders of the rows of s, whose costs lie in lo..hi, by wasted_cost,
\* greatest first: the rows above the middle of the range before those below,
\* rows of one cost in any arrangement.
RECURSIVE CostOrders(_, _, _)
CostOrders(s, lo, hi) ==
    IF Len(s) <= 1 THEN {s}
    ELSE IF lo = hi THEN Arrangements(s)
    ELSE LET mid == (lo + hi) \div 2
             upper == SelectSeq(s, LAMBDA r : r.wasted_cost > mid)
             lower == SelectSeq(s, LAMBDA r : r.wasted_cost <= mid)
         IN {a \o b : a \in CostOrders(upper, mid + 1, hi),
                      b \in CostOrders(lower, lo, mid)}

\* The frame left in its own order.
sort_values_unsorted(s) == {s}

\* anomalies.sort_values('wasted_cost', ascending=False): the default sort is
\* not stable, so rows of equal cost may come out in any order.
sort_values_cost_desc(s) ==
    IF s = <<>> THEN {s}
    ELSE CostOrders(s, MinCost(s, 1, Len(s)), MaxCost(s, 1, Len(s)))

\* .head(n)
head(s, n) == SubSeq(s, 1, IF Len(s) < n THEN Len(s) ELSE n)

\* top_anomalies[cols_to_save]: the reports the sort allows
top_anomalies(a) == {head(sorted, ReportCap) : sorted \in sort_values_cost_desc(a)}

\* 1. Load Data and Model
da_load ==
    /\ pc = "da_load"
    /\ IF features = NoFile \/ model = NoFile
       THEN pc' = "da_returned" /\ df' = df
       ELSE pc' = "da_prepare" /\ df' = Frame(features.columns, features.rows)
    /\ UNCHANGED <<raw, weather, merged, features, model, X_train, X_test,
                   anomalies, report, predicted, files, log, exit_status>>

\* 2. Prepare Features: X = df[model.feature_name_]
da_prepare ==
    /\ pc = "da_prepare"
    /\ pc' = IF RaisesKeyError(df.columns, model.feature_name_)
             THEN "da_error" ELSE "da_predict"
    /\ UNCHANGED <<raw, weather, merged, features, model, df, X_train, X_test,
                   anomalies, report, predicted, files, log, exit_status>>

\* The values model.predict may return for a row.
ExpectedValues == {10, 30}

\* 3. df['expected_reading'] = model.predict(X): the model is opaque.  It
\* returns any value for any row, or it raises and the run ends there; on a
\* frame without rows LightGBM raises ("Input data must be 2 dimensional and
\* non empty").
da_predict ==
    /\ pc = "da_predict"
    /\ \/ /\ Len(df.rows) > 0
          /\ \E y \in [1..Len(df.rows) -> ExpectedValues] :
                df' = Frame(df.columns \cup {"expected_reading"},
                            [i \in 1..Len(df.rows) |->
                                [timestamp |-> df.rows[i].timestamp,
                                 building_id |-> df.rows[i].building_id,
                                 meter_reading |-> df.rows[i].meter_reading,
                                 expected_reading |-> y[i]]])
          /\ pc' = "da_score"
       \/ /\ df' = df
          /\ pc' = "da_error"
    /\ predicted' = TRUE
    /\ UNCHANGED <<raw, weather, merged, features, model, X_train, X_test,
                   anomalies, report, files, log, exit_status>>

\* 4. Calculate Anomalies and 5. Calculate Financial Impact
da_score ==
    /\ pc = "da_score"
    /\ df' = Frame(df.columns \cup {"deviation", "std_error", "is_anomaly"},
                   ScoredRows(df.rows, Multiplier))
    /\ anomalies' = AnomalyRows(df'.rows)
    /\ pc' = "da_save"
    /\ UNCHANGED <<raw, weather, merged, features, model, X_train, X_test,
                   report, predicted, files, log, exit_status>>

\* 6. Save Report
da_save ==
    /\ pc = "da_save"
    /\ \E top \in top_anomalies(anomalies) : report' = File(top)
    /\ pc' = "da_done"
    /\ UNCHANGED <<raw, weather, merged, features, model, df, X_train, X_test,
                   anomalies, predicted, files, log, exit_status>>

-----------------------------------------------------------------------------
(* detect_anomalies on a feature table and a trained model. *)

MaxRows == 5          \* rows of the feature table, over both buildings
MaxMissing == 1       \* columns the table may lack

\* The readings a row may hold.
MeterValues == {10, 50}

\* The model as train_model saves it: feature_name_ is the feature columns.
TrainedModel == [exists |-> TRUE, feature_name_ |-> FeatureNames]

\* The stored rows: the cells detection itself reads.  The feature cells are
\* read only by model.predict.  n1 rows of building 1, then n2 of building 2,
\* each building's rows at hours 1, 2, ...
DetectRows(n1, n2, mr) ==
    [i \in 1..(n1 + n2) |->
        [timestamp |-> IF i <= n1 THEN i ELSE i - n1,
         building_id |-> IF i <= n1 THEN 1 ELSE 2,
         meter_reading |-> mr[i]]]

InitDetect ==
    /\ pc = "da_load"
    /\ \E n1 \in 0..MaxRows, n2 \in 0..MaxRows :
          /\ n1 + n2 <= MaxRows
          /\ \E mr \in [1..(n1 + n2) -> MeterValues], lacking \in SUBSET FeatureNames :
                /\ Cardinality(lacking) <= MaxMissing
                /\ \/ features = Table(FeatureColumns \ lacking, DetectRows(n1, n2, mr))
                   \/ n1 + n2 = 0 /\ lacking = {} /\ features = NoFile
    /\ model \in {NoFile, TrainedModel}
    /\ raw = NoFile
    /\ weather = {}
    /\ merged = NoFile
    /\ df = EmptyFrame
    /\ X_train = <<>>
    /\ X_test = <<>>
    /\ anomalies = <<>>
    /\ report = NoFile
    /\ predicted = FALSE
    /\ files = {}
    /\ log = <<>>
    /\ exit_status = NaN

NextDetect == da_load \/ da_prepare \/ da_predict \/ da_score \/ da_save

SpecDetect == InitDetect /\ [][NextDetect]_vars

-----------------------------------------------------------------------------
(* Properties of detect_anomalies. *)

MaxK == 3             \* multipliers 0..MaxK are compared

\* The deviations have been scored (steps 4 and 5 are done).
Scored == pc \in {"da_save", "da_done"}

RowKey(r) == <<r.building_id, r.timestamp>>
Keys(s) == {RowKey(s[i]) : i \in 1..Len(s)}
KeysOf(s, b) == {RowKey(s[i]) : i \in {j \in 1..Len(s) : s[j].building_id = b}}

\* C2: every record of the written report has wasted_kwh equal to
\* meter_reading - expected_reading and strictly positive.
C2_ReportedWasteIsPositive ==
    report # NoFile =>
        \A i \in 1..Len(report.rows) :
            /\ report.rows[i].wasted_kwh =
                   report.rows[i].meter_reading - report.rows[i].expected_reading
            /\ report.rows[i].wasted_kwh > 0

\* C2 witness: a report with a record was written while some reading lay
\* below its prediction and another exactly at it; neither is in the report.
C2_Witness ==
    /\ pc = "da_done"
    /\ Len(report.rows) > 0
    /\ \E i, j \in 1..Len(df.rows) :
          /\ df.rows[i].meter_reading < df.rows[i].expected_reading
          /\ df.rows[j].meter_reading = df.rows[j].expected_reading
          /\ RowKey(df.rows[i]) \notin Keys(report.rows)
          /\ RowKey(df.rows[j]) \notin Keys(report.rows)

\* The stored feature table lacks a column the model recorded at fit time.
SchemaMismatch ==
    /\ features # NoFile
    /\ model # NoFile
    /\ \E c \in model.feature_name_ : c \notin features.columns

\* C4: when the feature table lacks a column of model.feature_name_, the run
\* gets no further than the column selection, where it ends in an error:
\* model.predict is never invoked, no expected_reading exists, nothing is
\* flagged and no report is written.
C4_MismatchAbortsBeforePredict ==
    SchemaMismatch =>
        /\ pc \in {"da_load", "da_prepare", "da_error"}
        /\ ~predicted
        /\ "expected_reading" \notin df.columns
        /\ anomalies = <<>>
        /\ report = NoFile

\* C4 witness: a run on a non-empty table lacking lag_24h has ended in the error.
C4_Witness ==
    /\ pc = "da_error"
    /\ SchemaMismatch
    /\ "lag_24h" \notin df.columns
    /\ Len(df.rows) > 0

\* The rows of building b the rule flags with multiplier k.
FlaggedFor(b, k) ==
    {RowKey(df.rows[i]) : i \in {j \in 1..Len(df.rows) :
        /\ df.rows[j].building_id = b
        /\ ExceedsKStd(df.rows[j].deviation, k, df.rows[j].std_error)
        /\ df.rows[j].deviation > 0}}

\* C5: for each building, with its deviations fixed, the readings flagged for
\* multiplier k2 are among those flagged for k1 whenever 0 <= k1 <= k2, so a
\* larger multiplier never flags more readings.
C5_ThresholdMonotone ==
    Scored =>
        \A b \in Buildings : \A k1, k2 \in 0..MaxK :
            k1 <= k2 =>
                /\ FlaggedFor(b, k2) \subseteq FlaggedFor(b, k1)
                /\ Cardinality(FlaggedFor(b, k2)) <= Cardinality(FlaggedFor(b, k1))

\* C5 witness: a building for which multiplier 1 flags strictly more readings
\* than multiplier 2, which still flags one.
C5_Witness ==
    /\ Scored
    /\ \E b \in Buildings :
          /\ FlaggedFor(b, 2) # {}
          /\ FlaggedFor(b, 2) # FlaggedFor(b, 1)

\* The deviations of building b, read off meter_reading and expected_reading.
ResidualsOf(b) ==
    LET g == Group(df.rows, b)
    IN [i \in 1..Len(g) |-> g[i].meter_reading - g[i].expected_reading]

\* d > 0 and d > 2 * s, s the n-1 sample standard deviation of ds:
\*     s^2 = (n * sum(d^2) - sum(d)^2) / (n * (n - 1))
ExceedsTwoSampleStd(d, ds) ==
    LET n == Len(ds)
        S1 == SumSeq(ds)
        S2 == SumSeq([i \in 1..n |-> ds[i] * ds[i]])
    IN /\ d > 0
       /\ n >= 2
       /\ d * d * n * (n - 1) > 4 * (n * S2 - S1 * S1)

\* C6: a reading is an AnomalyRecord exactly when its deviation is positive
\* and exceeds twice the n-1 sample standard deviation of all deviations of
\* its own building; its wasted_cost is the deviation times the unit rate; and
\* for building 1 with readings 10,10,10,10,50 all predicted 10, exactly the
\* reading 50 is flagged.
C6_FlaggedIffAboveTwoStd ==
    Scored =>
        /\ \A i \in 1..Len(df.rows) :
              LET r == df.rows[i]
              IN (RowKey(r) \in Keys(anomalies)) <=>
                     ExceedsTwoSampleStd(r.meter_reading - r.expected_reading,
                                         ResidualsOf(r.building_id))
        /\ \A i \in 1..Len(anomalies) :
              anomalies[i].wasted_cost =
                  (anomalies[i].meter_reading - anomalies[i].expected_reading)
                      * CostPerKwhCents
        /\ (/\ [i \in 1..Len(Group(df.rows, 1)) |-> Group(df.rows, 1)[i].meter_reading]
                   = <<10, 10, 10, 10, 50>>
            /\ \A i \in 1..Len(df.rows) : df.rows[i].expected_reading = 10)
               => KeysOf(anomalies, 1) = {<<1, 5>>}

\* C6 witness: the scenario has been scored, and its one AnomalyRecord wastes
\* 40 kWh at 40 times the unit rate.
C6_Witness ==
    /\ Scored
    /\ ResidualsOf(1) = <<0, 0, 0, 0, 40>>
    /\ Len(anomalies) = 1
    /\ anomalies[1].wasted_kwh = 40
    /\ anomalies[1].wasted_cost = 560

\* std_error of b is undefined: b has a single reading.
StdUndefined(b) == Len(ResidualsOf(b)) = 1

\* std_error of b is zero: two or more readings, all deviations equal.
StdZero(b) ==
    /\ Len(ResidualsOf(b)) >= 2
    /\ \A i, j \in 1..Len(ResidualsOf(b)) : ResidualsOf(b)[i] = ResidualsOf(b)[j]

\* The flagged readings of the other buildings are those of a run on the
\* table without building b.
OthersUnchanged(b) ==
    LET without == SelectSeq(df.rows, LAMBDA r : r.building_id # b)
    IN Keys(anomalies) \ KeysOf(anomalies, b)
           = Keys(AnomalyRows(ScoredRows(without, Multiplier)))

\* C7 as stated: a building whose std_error is undefined or zero contributes
\* no AnomalyRecord, and does not change what is flagged elsewhere.
C7_Original ==
    Scored =>
        \A b \in Buildings :
            (StdUndefined(b) \/ StdZero(b)) =>
                /\ KeysOf(anomalies, b) = {}
                /\ OthersUnchanged(b)

\* C7 amended: a building with an undefined std_error (a single reading)
\* contributes no AnomalyRecord; a building with a zero std_error (all its
\* deviations equal) contributes each of its readings when that deviation is
\* positive and none otherwise; in both cases the building does not abort the
\* run (the run can end in an error at the column selection or inside
\* model.predict, never once the predictions exist) and the readings flagged
\* for the other buildings are the same as without it.
C7_DegenerateEntities ==
    /\ pc = "da_error" => "expected_reading" \notin df.columns
    /\ Scored =>
        \A b \in Buildings :
            /\ StdUndefined(b) => KeysOf(anomalies, b) = {}
            /\ StdZero(b) =>
                  KeysOf(anomalies, b) =
                      {RowKey(df.rows[i]) : i \in {j \in 1..Len(df.rows) :
                          /\ df.rows[j].building_id = b
                          /\ df.rows[j].meter_reading > df.rows[j].expected_reading}}
            /\ (StdUndefined(b) \/ StdZero(b)) => OthersUnchanged(b)

\* C7 witness: the report is written; building 2 has equal positive deviations
\* and both its readings are flagged, while building 1 has a flagged and an
\* unflagged reading.
C7_Witness ==
    /\ pc = "da_done"
    /\ StdZero(2)
    /\ Cardinality(KeysOf(anomalies, 2)) = 2
    /\ Len(Group(df.rows, 1)) >= 2
    /\ Cardinality(KeysOf(anomalies, 1)) = 1

-----------------------------------------------------------------------------
(* Step 6 of detect_anomalies on a large set of flagged anomalies. *)

MaxOver == 2          \* the anomalies number ReportCap - MaxOver .. ReportCap + MaxOver
MaxTies == 2          \* pairs of anomalies of equal cost, at most
MaxStride == 3        \* how far apart in cost neighbouring rows are
MaxOffset == 2        \* where in the frame the costs start

RECURSIVE GCD(_, _)
GCD(a, b) == IF b = 0 THEN a ELSE GCD(b, a % b)

\* n flagged rows, alternating between the buildings, all predicted 10; the
\* deviation of row i is one of `distinct` values, stepping by stride around
\* them, so that the n - distinct rows past the first round repeat the cost
\* of an earlier row.  The rows carry the columns step 6 reads.
FlaggedRows(n, distinct, stride, offset) ==
    [i \in 1..n |->
        LET d == 1 + ((i * stride + offset) % distinct)
        IN [timestamp |-> i,
            building_id |-> 1 + (i % 2),
            meter_reading |-> 10 + d,
            expected_reading |-> 10,
            wasted_kwh |-> d,
            wasted_cost |-> d * CostPerKwhCents]]

\* detect_anomalies has flagged its anomalies and is about to save the report.
\* Step 6 reads anomalies alone; the tables it came from are not kept.
InitRank ==
    /\ pc = "da_save"
    /\ \E n \in (ReportCap - MaxOver)..(ReportCap + MaxOver),
          ties \in 0..MaxTies, stride \in 1..MaxStride, offset \in 0..MaxOffset :
          /\ GCD(n - ties, stride) = 1
          /\ anomalies = FlaggedRows(n, n - ties, stride, offset)
    /\ predicted = TRUE
    /\ features = NoFile
    /\ model = TrainedModel
    /\ raw = NoFile
    /\ weather = {}
    /\ merged = NoFile
    /\ df = EmptyFrame
    /\ X_train = <<>>
    /\ X_test = <<>>
    /\ report = NoFile
    /\ files = {}
    /\ log = <<>>
    /\ exit_status = NaN

NextRank == da_save

SpecRank == InitRank /\ [][NextRank]_vars

\* C3: the written report has at most 5000 records, in non-increasing order
\* of wasted_cost; every record is a flagged anomaly, none twice; and when
\* more than 5000 anomalies were flagged, no omitted anomaly costs more than a
\* reported record.
C3_ReportCappedAndRanked ==
    report # NoFile =>
        LET out == report.rows
            reported == Keys(out)
            omitted == SelectSeq(anomalies, LAMBDA a : RowKey(a) \notin reported)
            least == out[Len(out)].wasted_cost
        IN /\ Len(out) <= 5000
           /\ Len(out) = (IF Len(anomalies) < 5000 THEN Len(anomalies) ELSE 5000)
           /\ \A i \in 1..(Len(out) - 1) : out[i].wasted_cost >= out[i + 1].wasted_cost
           /\ Cardinality(reported) = Len(out)
           /\ reported \subseteq Keys(anomalies)
           /\ Len(anomalies) > 5000 =>
                 \A i \in 1..Len(omitted) : omitted[i].wasted_cost <= least

\* C3 witness: more than 5000 anomalies of different costs were flagged, the
\* report holds 5000 of them and an anomaly of the least cost was left out.
C3_Witness ==
    /\ pc = "da_done"
    /\ Len(anomalies) > 5000
    /\ Len(report.rows) = 5000
    /\ report.rows[1].wasted_cost > report.rows[5000].wasted_cost
    /\ \E i \in 1..Len(anomalies) :
          /\ RowKey(anomalies[i]) \notin Keys(report.rows)
          /\ anomalies[i].wasted_cost = report.rows[5000].wasted_cost

-----------------------------------------------------------------------------
(* src/models/train_model.py *)

\* drop_cols; features = [c for c in df.columns if c not in drop_cols]
DropCols == {"meter_reading", "timestamp", "building_id", "site_id"}
feature_list(columns) == columns \ DropCols

\* df.sort_values('timestamp'): the rows by ascending timestamp.  pandas does
\* not fix the order of rows with equal timestamps, so every such order is a
\* possible outcome.  idx is the set of positions of s still to be placed.
RECURSIVE TimeOrders(_, _)
TimeOrders(s, idx) ==
    IF idx = {} THEN {<<>>}
    ELSE LET first == {i \in idx : \A j \in idx : s[i].timestamp <= s[j].timestamp}
         IN UNION {{<<s[i]>> \o rest : rest \in TimeOrders(s, idx \ {i})} : i \in first}

\* The frame left in its (building_id, timestamp) order.
sort_values_skipped(s) == {s}

sort_values_timestamp(s) == TimeOrders(s, 1..Len(s))

\* split_idx = int(len(df) * 0.8)
split_idx(n) == (n * 8) \div 10

\* 1. load: read the feature table, or report it missing and return
tm_load ==
    /\ pc = "tm_load"
    /\ IF features = NoFile
       THEN pc' = "tm_returned" /\ df' = df
       ELSE pc' = "tm_split" /\ df' = Frame(features.columns, features.rows)
    /\ UNCHANGED <<raw, weather, merged, features, model, X_train, X_test,
                   anomalies, report, predicted, files, log, exit_status>>

\* 2. TIME-BASED SPLIT.  X_train and X_test keep the rows' identity (the frame
\* index), shown here by the key cells.
tm_split ==
    /\ pc = "tm_split"
    /\ \E sorted \in sort_values_timestamp(df.rows) :
          /\ df' = Frame(df.columns, sorted)
          /\ X_train' = SubSeq(sorted, 1, split_idx(Len(sorted)))
          /\ X_test' = SubSeq(sorted, split_idx(Len(sorted)) + 1, Len(sorted))
    /\ pc' = "tm_fit"
    /\ UNCHANGED <<raw, weather, merged, features, model, anomalies, report,
                   predicted, files, log, exit_status>>

\* 3.-5. model.fit and joblib.dump.  LightGBM is opaque: it fits and the model
\* is saved with the feature names, or it raises.
tm_fit ==
    /\ pc = "tm_fit"
    /\ \/ /\ model' = [exists |-> TRUE, feature_name_ |-> feature_list(df.columns)]
          /\ pc' = "tm_plot"
       \/ /\ model' = model
          /\ pc' = "tm_error"
    /\ UNCHANGED <<raw, weather, merged, features, df, X_train, X_test,
                   anomalies, report, predicted, files, log, exit_status>>

\* 6. Feature Importance: plot_importance and savefig, after the model file is
\* written.  The plot is saved, or plotting raises; the model file stays.
tm_plot ==
    /\ pc = "tm_plot"
    /\ \/ pc' = "tm_done"
       \/ pc' = "tm_error"
    /\ UNCHANGED <<raw, weather, merged, features, model, df, X_train, X_test,
                   anomalies, report, predicted, files, log, exit_status>>

-----------------------------------------------------------------------------
(* train_model on a feature table. *)

MaxTrainRows == 3     \* rows per building in the feature table
MaxStart == 2         \* a building's first hour is 1..MaxStart

\* Building b's rows: count[b] consecutive hours from start[b]; the table is
\* in (building_id, timestamp) order, as generate_features writes it.
TrainRows(start, count) ==
    LET rowsOf(b) == [i \in 1..count[b] |->
                         [timestamp |-> start[b] + i - 1,
                          building_id |-> b,
                          meter_reading |-> RawReading(b, start[b] + i - 1)]]
    IN rowsOf(1) \o rowsOf(2)

InitTrain ==
    /\ pc = "tm_load"
    /\ \/ features = NoFile
       \/ \E start \in [Buildings -> 1..MaxStart],
             count \in [Buildings -> 0..MaxTrainRows] :
              features = Table(FeatureColumns, TrainRows(start, count))
    /\ model = NoFile
    /\ raw = NoFile
    /\ weather = {}
    /\ merged = NoFile
    /\ df = EmptyFrame
    /\ X_train = <<>>
    /\ X_test = <<>>
    /\ anomalies = <<>>
    /\ report = NoFile
    /\ predicted = FALSE
    /\ files = {}
    /\ log = <<>>
    /\ exit_status = NaN

NextTrain == tm_load \/ tm_split \/ tm_fit \/ tm_plot

SpecTrain == InitTrain /\ [][NextTrain]_vars

SplitDone == pc \in {"tm_fit", "tm_plot", "tm_done", "tm_error"}

\* C9: the n feature rows are split into a training prefix of exactly
\* floor(0.8 n) rows and an evaluation suffix of the others; the parts are
\* disjoint, together hold every row exactly once, and no training row is
\* later than an evaluation row, whatever the buildings of the rows.
C9_TemporalSplit ==
    SplitDone =>
        LET n == Len(features.rows)
        IN /\ 5 * Len(X_train) <= 4 * n
           /\ 4 * n < 5 * (Len(X_train) + 1)
           /\ Len(X_train) + Len(X_test) = n
           /\ Keys(X_train) \cap Keys(X_test) = {}
           /\ Keys(X_train) \cup Keys(X_test) = Keys(features.rows)
           /\ Cardinality(Keys(X_train)) = Len(X_train)
           /\ Cardinality(Keys(X_test)) = Len(X_test)
           /\ \A i \in 1..Len(X_train) : \A j \in 1..Len(X_test) :
                  X_train[i].timestamp <= X_test[j].timestamp

\* C9 witness: six rows of two buildings are split 4 : 2; the training part
\* holds rows of both buildings and the cut falls between two rows of the
\* same hour.
C9_Witness ==
    /\ SplitDone
    /\ Len(X_train) = 4
    /\ Len(X_test) = 2
    /\ {X_train[i].building_id : i \in 1..4} = {1, 2}
    /\ X_train[4].timestamp = X_test[1].timestamp

-----------------------------------------------------------------------------
(* run_pipeline.py *)

\* What running a stage's script can do on the files present: it reports a
\* missing input and returns (exit code 0, nothing written), it ends in an
\* uncaught error (exit code 1), or it does its work and writes its output.
Skipped(fs) == [outcome |-> "skipped", code |-> 0, files |-> fs]
Raised(fs) == [outcome |-> "raised", code |-> 1, files |-> fs]
Worked(fs) == [outcome |-> "worked", code |-> 0, files |-> fs]

\* src/etl/data_loader.py: process_meter_data, load_metadata, load_weather
script_data_loader(fs) ==
    IF "raw" \notin fs THEN {Skipped(fs)}
    ELSE IF "metadata" \notin fs \/ "weather" \notin fs THEN {Raised(fs)}
    ELSE {Worked(fs \cup {"merged"}), Raised(fs)}

\* src/features/processor.py: generate_features
script_processor(fs) ==
    IF "merged" \notin fs THEN {Skipped(fs)}
    ELSE {Worked(fs \cup {"features"}), Raised(fs)}

\* src/models/train_model.py: train_model.  The model file is written before
\* the feature importance plot, so an error can come before or after it.
script_train_model(fs) ==
    IF "features" \notin fs THEN {Skipped(fs)}
    ELSE {Worked(fs \cup {"model"}), Raised(fs), Raised(fs \cup {"model"})}

\* src/models/detect_anomalies.py: detect_anomalies
script_detect_anomalies(fs) ==
    IF "features" \notin fs \/ "model" \notin fs THEN {Skipped(fs)}
    ELSE {Worked(fs \cup {"report"}), Raised(fs)}

\* run_step(script_path, step_name): subprocess.run(..., check=True); a
\* non-zero exit code is CalledProcessError, answered by sys.exit(1).
run_step(at, step_name, results, next) ==
    /\ pc = at
    /\ \E r \in results :
          /\ files' = r.files
          /\ log' = Append(log, [stage |-> step_name, outcome |-> r.outcome])
          /\ IF r.code # 0
             THEN pc' = "main_exit" /\ exit_status' = Some(1)
             ELSE pc' = next /\ exit_status' = exit_status
    /\ UNCHANGED <<raw, weather, merged, features, model, df, X_train, X_test,
                   anomalies, report, predicted>>

main_etl == run_step("main_1", "etl", script_data_loader(files), "main_2")
main_features == run_step("main_2", "features", script_processor(files), "main_3")
main_train == run_step("main_3", "train", script_train_model(files), "main_4")
main_detect == run_step("main_4", "detect", script_detect_anomalies(files), "main_banner")

\* print("PIPELINE SUCCESSFUL!") and the end of main
main_banner ==
    /\ pc = "main_banner"
    /\ log' = Append(log, [stage |-> "main", outcome |-> "PIPELINE SUCCESSFUL"])
    /\ exit_status' = Some(0)
    /\ pc' = "main_end"
    /\ UNCHANGED <<raw, weather, merged, features, model, df, X_train, X_test,
                   anomalies, report, predicted, files>>

FileNames == {"raw", "metadata", "weather", "merged", "features", "model", "report"}

\* The pipeline starts on any set of files left by earlier runs.
InitPipeline ==
    /\ pc = "main_1"
    /\ files \in SUBSET FileNames
    /\ log = <<>>
    /\ exit_status = NaN
    /\ raw = NoFile
    /\ weather = {}
    /\ merged = NoFile
    /\ features = NoFile
    /\ model = NoFile
    /\ df = EmptyFrame
    /\ X_train = <<>>
    /\ X_test = <<>>
    /\ anomalies = <<>>
    /\ report = NoFile
    /\ predicted = FALSE

NextPipeline ==
    main_etl \/ main_features \/ main_train \/ main_detect \/ main_banner

SpecPipeline == InitPipeline /\ [][NextPipeline]_vars

StageOrder == <<"etl", "features", "train", "detect">>

\* C10: the four stages run in order, and a stage that cannot do its work (it
\* raised, or its required input was missing) is the last one started: the
\* pipeline has stopped with exit status 1 and the success banner is not
\* printed.
C10_FailFast ==
    /\ \A i \in 1..Len(log) :
          log[i].stage # "main" => i <= 4 /\ log[i].stage = StageOrder[i]
    /\ \A i \in 1..Len(log) :
          log[i].outcome \in {"raised", "skipped"} =>
              /\ i = Len(log)
              /\ pc = "main_exit"
              /\ exit_status = Some(1)

-----------------------------------------------------------------------------
(* Every script and the pipeline together. *)

Init == InitFeatures \/ InitTrain \/ InitDetect \/ InitRank \/ InitPipeline

Next == NextFeatures \/ NextTrain \/ NextDetect \/ NextPipeline

Spec == Init /\ [][Next]_vars

=============================================================================
